---- MODULE Spec2Model ----
(***************************************************************************)
(* A model of main.py of vless-rail: the VLESS descriptor parser           *)
(* (VLESSChecker.parse_config), the four probes, the report builder        *)
(* (VLESSChecker.run_check), the Telegram delivery loop                    *)
(* (send_telegram_reports) and the mode dispatch (main).                   *)
(*                                                                         *)
(* Python strings that the code takes apart or puts together are modelled  *)
(* as sequences of one-character strings, so that split, rsplit, strip,    *)
(* int() and str() are computed and not assumed.  Diagnostic messages keep *)
(* their fixed text only (durations, addresses and error texts vary with   *)
(* the network and are left out).                                          *)
(***************************************************************************)
EXTENDS Integers, Sequences, FiniteSets, TLC

VARIABLES
    MODE,          \* main.py:18
    VLESS_CONFIG,  \* main.py:16, the raw descriptor
    BOT_TOKEN,     \* main.py:15
    CHAT_IDS,      \* main.py:17, the list of recipient identifiers
    pc,            \* position of the program
    config,        \* VLESSChecker.config: a descriptor or None
    results,       \* the report run_check builds and returns
    calls,         \* probes invoked so far in the current run, in order
    net,           \* network operations performed so far in the current run
    ret,           \* the pair returned by the last direct probe call
    sends,         \* send_message attempts of the delivery loop, in order
    idx,           \* send_telegram_reports' position in CHAT_IDS
    success_count, \* send_telegram_reports' counter
    printed        \* the "k/n" of the final line send_telegram_reports prints

vars == <<MODE, VLESS_CONFIG, BOT_TOKEN, CHAT_IDS, pc, config, results,
          calls, net, ret, sends, idx, success_count, printed>>

-----------------------------------------------------------------------------
(* Bounds of the model.                                                    *)

\* longest text after the scheme, in the parser's exhaustive inputs
MaxBody == 4
\* longest text after the scheme, in the inputs of a whole check run
MaxRunBody == 3
\* longest CHAT_IDS environment string
MaxChatEnv == 4

-----------------------------------------------------------------------------
(* Python's str operations, on sequences of characters.                    *)

None == [none |-> TRUE]

\* the ASCII whitespace str.strip() and int() skip
Whitespace == {" ", "\t", "\n", "\r"}

Digits == <<"0", "1", "2", "3", "4", "5", "6", "7", "8", "9">>

IsDigit(c) == \E i \in 1..10 : Digits[i] = c

DigitVal(c) == (CHOOSE i \in 1..10 : Digits[i] = c) - 1

\* c in s
Contains(s, c) == \E i \in 1..Len(s) : s[i] = c

\* s.startswith(p)
StartsWith(s, p) == Len(s) >= Len(p) /\ SubSeq(s, 1, Len(p)) = p

\* s[n:]
Drop(s, n) == SubSeq(s, n + 1, Len(s))

\* index of the first c in s (c is in s)
Find(s, c) == CHOOSE i \in 1..Len(s) : s[i] = c /\ \A j \in 1..(i - 1) : s[j] # c

\* index of the last c in s (c is in s)
RFind(s, c) == CHOOSE i \in 1..Len(s) : s[i] = c /\ \A j \in (i + 1)..Len(s) : s[j] # c

\* s.split(c, 1) when c is in s: the text before the first c, the text after it
Split1(s, c) == <<SubSeq(s, 1, Find(s, c) - 1), Drop(s, Find(s, c))>>

\* s.rsplit(c, 1) when c is in s: the text before the last c, the text after it
RSplit1(s, c) == <<SubSeq(s, 1, RFind(s, c) - 1), Drop(s, RFind(s, c))>>

\* s.split(c): every segment, in order (one segment, s itself, when c is not in s)
RECURSIVE Split(_, _)
Split(s, c) ==
    IF Contains(s, c)
    THEN <<Split1(s, c)[1]>> \o Split(Split1(s, c)[2], c)
    ELSE <<s>>

RECURSIVE LStrip(_)
LStrip(s) == IF s # <<>> /\ s[1] \in Whitespace THEN LStrip(Tail(s)) ELSE s

RECURSIVE RStrip(_)
RStrip(s) ==
    IF s # <<>> /\ s[Len(s)] \in Whitespace
    THEN RStrip(SubSeq(s, 1, Len(s) - 1))
    ELSE s

\* s.strip()
Strip(s) == RStrip(LStrip(s))

\* the digits of int(): decimal digits, single underscores only between digits
IsNumeral(s) ==
    /\ s # <<>>
    /\ IsDigit(s[1])
    /\ IsDigit(s[Len(s)])
    /\ \A i \in 1..Len(s) : IsDigit(s[i]) \/ s[i] = "_"
    /\ \A i \in 1..(Len(s) - 1) : ~(s[i] = "_" /\ s[i + 1] = "_")

RECURSIVE NumeralVal(_)
NumeralVal(s) ==
    IF s = <<>> THEN 0
    ELSE IF s[Len(s)] = "_" THEN NumeralVal(SubSeq(s, 1, Len(s) - 1))
    ELSE 10 * NumeralVal(SubSeq(s, 1, Len(s) - 1)) + DigitVal(s[Len(s)])

\* the text int() reads after stripping whitespace and one optional sign
Unsigned(s) ==
    IF Strip(s) # <<>> /\ Strip(s)[1] \in {"+", "-"} THEN Tail(Strip(s)) ELSE Strip(s)

\* does int(s) raise ValueError
IntRaises(s) == ~IsNumeral(Unsigned(s))

\* int(s), when it does not raise
IntOf(s) ==
    IF Strip(s)[1] = "-" THEN 0 - NumeralVal(Unsigned(s)) ELSE NumeralVal(Unsigned(s))

RECURSIVE NatStr(_)
NatStr(n) == IF n < 10 THEN <<Digits[n + 1]>> ELSE NatStr(n \div 10) \o <<Digits[(n % 10) + 1]>>

\* str(n) and the {n} of an f-string
Str(n) == IF n < 0 THEN <<"-">> \o NatStr(0 - n) ELSE NatStr(n)

-----------------------------------------------------------------------------
(* The string literals of parse_config.                                    *)

VlessScheme == <<"v", "l", "e", "s", "s", ":", "/", "/">>
Unknown == <<"U", "n", "k", "n", "o", "w", "n">>
K_security == <<"s", "e", "c", "u", "r", "i", "t", "y">>
K_type == <<"t", "y", "p", "e">>
K_sni == <<"s", "n", "i">>
K_flow == <<"f", "l", "o", "w">>
V_none == <<"n", "o", "n", "e">>
V_tcp == <<"t", "c", "p">>

DefaultPort == 443

-----------------------------------------------------------------------------
(* VLESSChecker.parse_config, step by step as the code takes the string    *)
(* apart.  Each operator takes the original config_str.                    *)

\* config_str[8:]
AfterScheme(config_str) == Drop(config_str, Len(VlessScheme))

uuid_part(config_str) == Split1(AfterScheme(config_str), "@")[1]

rest(config_str) == Split1(AfterScheme(config_str), "@")[2]

server_part(config_str) ==
    IF Contains(rest(config_str), "#")
    THEN RSplit1(rest(config_str), "#")[1]
    ELSE rest(config_str)

name(config_str) ==
    IF Contains(rest(config_str), "#")
    THEN RSplit1(rest(config_str), "#")[2]
    ELSE Unknown

address_part(config_str) ==
    IF Contains(server_part(config_str), "?")
    THEN Split1(server_part(config_str), "?")[1]
    ELSE server_part(config_str)

params_part(config_str) ==
    IF Contains(server_part(config_str), "?")
    THEN Split1(server_part(config_str), "?")[2]
    ELSE <<>>

host(config_str) ==
    IF Contains(address_part(config_str), ":")
    THEN RSplit1(address_part(config_str), ":")[1]
    ELSE address_part(config_str)

\* the text handed to int()
port_text(config_str) == RSplit1(address_part(config_str), ":")[2]

port(config_str) ==
    IF Contains(address_part(config_str), ":")
    THEN IntOf(port_text(config_str))
    ELSE DefaultPort

\* the key=value pairs of params_part, in order; a pair without '=' is skipped
params(config_str) ==
    IF params_part(config_str) = <<>>
    THEN <<>>
    ELSE SelectSeq(Split(params_part(config_str), "&"), LAMBDA p : Contains(p, "="))

\* params.get(key, default): the value of the last pair with that key
RECURSIVE Get(_, _, _)
Get(pairs, key, default) ==
    IF pairs = <<>> THEN default
    ELSE IF Split1(pairs[Len(pairs)], "=")[1] = key
         THEN Split1(pairs[Len(pairs)], "=")[2]
         ELSE Get(SubSeq(pairs, 1, Len(pairs) - 1), key, default)

\* an exception is raised inside the try block (the only raising call is int())
ParseRaises(config_str) ==
    /\ StartsWith(config_str, VlessScheme)
    /\ Contains(AfterScheme(config_str), "@")
    /\ Contains(address_part(config_str), ":")
    /\ IntRaises(port_text(config_str))

\* a parser whose port falls back to the default when int() raises
parse_config_port_fallback(config_str) ==
    IF ~StartsWith(config_str, VlessScheme) THEN None
    ELSE IF ~Contains(AfterScheme(config_str), "@") THEN None
    ELSE [uuid     |-> uuid_part(config_str),
          host     |-> host(config_str),
          port     |-> IF ParseRaises(config_str) THEN DefaultPort ELSE port(config_str),
          name     |-> name(config_str),
          security |-> Get(params(config_str), K_security, V_none),
          type     |-> Get(params(config_str), K_type, V_tcp),
          sni      |-> Get(params(config_str), K_sni, <<>>),
          flow     |-> Get(params(config_str), K_flow, <<>>)]

parse_config(config_str) ==
    IF ~StartsWith(config_str, VlessScheme) THEN None
    ELSE IF ~Contains(AfterScheme(config_str), "@") THEN None
    ELSE IF ParseRaises(config_str) THEN None
    ELSE [uuid     |-> uuid_part(config_str),
          host     |-> host(config_str),
          port     |-> port(config_str),
          name     |-> name(config_str),
          security |-> Get(params(config_str), K_security, V_none),
          type     |-> Get(params(config_str), K_type, V_tcp),
          sni      |-> Get(params(config_str), K_sni, <<>>),
          flow     |-> Get(params(config_str), K_flow, <<>>)]

-----------------------------------------------------------------------------
(* The probes.  A probe is a relation: the set of the results it can       *)
(* return on a checker whose config is cfg, one per outcome of the network *)
(* operations it performs.  A result carries the returned pair (ok,        *)
(* message) and net, the network operations performed, in order.           *)

\* `not self.config`: None is falsy; the dict parse_config returns has eight
\* keys, and a non-empty dict is truthy
Falsy(cfg) == cfg = None

Result(ok, message, ops) == [ok |-> ok, message |-> message, net |-> ops]

ConfigParseError == Result(FALSE, <<"Config parse error">>, <<>>)

check_dns(cfg) ==
    IF Falsy(cfg) THEN {ConfigParseError}
    ELSE {Result(TRUE, <<"DNS resolved">>, <<"getaddrinfo:ok">>),
          Result(FALSE, <<"DNS error">>, <<"getaddrinfo:error">>)}

check_geo(cfg) ==
    IF Falsy(cfg) THEN {ConfigParseError}
    ELSE {Result(FALSE, <<"Geo error">>, <<"getaddrinfo:error">>),
          Result(TRUE, <<"Location">>, <<"getaddrinfo:ok", "get:200">>),
          Result(FALSE, <<"Geo error">>, <<"getaddrinfo:ok", "get:200:badjson">>),
          Result(FALSE, <<"Geo API error">>, <<"getaddrinfo:ok", "get:non200">>),
          Result(FALSE, <<"Geo error">>, <<"getaddrinfo:ok", "get:error">>)}

check_tcp(cfg) ==
    IF Falsy(cfg) THEN {ConfigParseError}
    ELSE {Result(TRUE, <<"TCP connection OK">>, <<"connect:established", "close:ok">>),
          Result(FALSE, <<"TCP error">>, <<"connect:established", "close:error">>),
          Result(FALSE, <<"TCP error">>, <<"connect:timeout">>),
          Result(FALSE, <<"TCP error">>, <<"connect:error">>)}

\* what one GET of check_http can end as: status 200, another status, an exception
GetOutcomes == {"200", "non200", "failed"}

\* the entry check_http appends to results for one GET
Mark(outcome) == IF outcome = "200" THEN "pass" ELSE "fail"

\* len([r for r in results if r.startswith(pass mark)])
Passed(marks) == Cardinality({i \in 1..Len(marks) : marks[i] = "pass"})

\* check_http does not read self.config
check_http(cfg) ==
    {Result(Passed(<<Mark(a), Mark(b)>>) > 0,
            <<"HTTP tests">> \o Str(Passed(<<Mark(a), Mark(b)>>)) \o <<"/">>
                \o Str(Len(<<Mark(a), Mark(b)>>)) \o <<Mark(a), Mark(b)>>,
            <<"get:" \o a, "get:" \o b>>) : a \in GetOutcomes, b \in GetOutcomes}

-----------------------------------------------------------------------------
(* VLESSChecker.run_check.                                                 *)

NA == <<"N", "/", "A">>

\* the results dict as run_check first builds it (the timestamp is left out)
InitialResults(cfg) ==
    [success        |-> FALSE,
     server         |-> IF Falsy(cfg) THEN NA ELSE cfg.host \o <<":">> \o Str(cfg.port),
     checks         |-> <<>>,
     overall_status |-> "FAILED",
     success_rate   |-> <<"0", "/", "0">>]

\* results['checks'][key] = {'success': ok, 'message': message}: the keys the
\* code inserts are distinct, so insertion order is the order of the appends
Record(res, key, ok, message) ==
    [res EXCEPT !.checks = Append(@, [name |-> key, success |-> ok, message |-> message])]

\* the config entry with the probes' wording
ConfigError_probe_wording(res) == Record(res, "config", FALSE, <<"Config parse error">>)

ConfigError(res) == Record(res, "config", FALSE, <<"VLESS config parse error">>)

\* a verdict that lets Geo decide too
critical_checks_with_geo(dns_ok, geo_ok, tcp_ok, http_ok) ==
    <<dns_ok, geo_ok, tcp_ok, http_ok>>

critical_checks(dns_ok, geo_ok, tcp_ok, http_ok) == <<dns_ok, tcp_ok, http_ok>>

\* a ratio that leaves the informational probe out
all_checks_without_geo(dns_ok, geo_ok, tcp_ok, http_ok) == <<dns_ok, tcp_ok, http_ok>>

all_checks(dns_ok, geo_ok, tcp_ok, http_ok) == <<dns_ok, geo_ok, tcp_ok, http_ok>>

\* all(bools)
All(bools) == \A i \in 1..Len(bools) : bools[i]

\* sum(bools)
Sum(bools) == Cardinality({i \in 1..Len(bools) : bools[i]})

\* lines 185-192: the verdict and the ratio
Calculate(res, dns_ok, geo_ok, tcp_ok, http_ok) ==
    [res EXCEPT
        !.success = All(critical_checks(dns_ok, geo_ok, tcp_ok, http_ok)),
        !.overall_status =
            IF All(critical_checks(dns_ok, geo_ok, tcp_ok, http_ok)) THEN "OK" ELSE "FAILED",
        !.success_rate =
            Str(Sum(all_checks(dns_ok, geo_ok, tcp_ok, http_ok))) \o <<"/">>
                \o Str(Len(all_checks(dns_ok, geo_ok, tcp_ok, http_ok)))]

\* the local dns_ok, geo_ok, tcp_ok: the value recorded under that key
Local(res, key) == (CHOOSE i \in 1..Len(res.checks) : res.checks[i].name = key)

OkOf(res, key) == res.checks[Local(res, key)].success

RunLeaves == UNCHANGED <<MODE, VLESS_CONFIG, BOT_TOKEN, CHAT_IDS, config, ret,
                         sends, idx, success_count, printed>>

\* lines 157-170: build the dict; without a descriptor, return the config error
RunCheckBegin ==
    /\ pc = "run_check"
    /\ calls' = <<>>
    /\ net' = <<>>
    /\ IF Falsy(config)
       THEN /\ results' = ConfigError(InitialResults(config))
            /\ pc' = "returned"
       ELSE /\ results' = InitialResults(config)
            /\ pc' = "dns"
    /\ RunLeaves

\* a run that gives up when DNS fails
RunDns_short_circuit ==
    /\ pc = "dns"
    /\ \E r \in check_dns(config) :
        /\ results' = Record(results, "dns", r.ok, r.message)
        /\ net' = net \o r.net
        /\ pc' = IF r.ok THEN "geo" ELSE "returned"
    /\ calls' = Append(calls, "dns")
    /\ RunLeaves

\* lines 173-174
RunDns ==
    /\ pc = "dns"
    /\ \E r \in check_dns(config) :
        /\ results' = Record(results, "dns", r.ok, r.message)
        /\ net' = net \o r.net
    /\ calls' = Append(calls, "dns")
    /\ pc' = "geo"
    /\ RunLeaves

\* lines 176-177
RunGeo ==
    /\ pc = "geo"
    /\ \E r \in check_geo(config) :
        /\ results' = Record(results, "geo", r.ok, r.message)
        /\ net' = net \o r.net
    /\ calls' = Append(calls, "geo")
    /\ pc' = "tcp"
    /\ RunLeaves

\* lines 179-180
RunTcp ==
    /\ pc = "tcp"
    /\ \E r \in check_tcp(config) :
        /\ results' = Record(results, "tcp", r.ok, r.message)
        /\ net' = net \o r.net
    /\ calls' = Append(calls, "tcp")
    /\ pc' = "http"
    /\ RunLeaves

\* lines 182-194: the last probe, the calculation, the return
RunHttp ==
    /\ pc = "http"
    /\ \E r \in check_http(config) :
        /\ results' = Calculate(Record(results, "http", r.ok, r.message),
                                OkOf(results, "dns"), OkOf(results, "geo"),
                                OkOf(results, "tcp"), r.ok)
        /\ net' = net \o r.net
    /\ calls' = Append(calls, "http")
    /\ pc' = "returned"
    /\ RunLeaves

-----------------------------------------------------------------------------
(* format_report and TelegramClient.send_message.                          *)

Emoji(ok) == IF ok THEN "pass" ELSE "fail"

\* check_name.upper()
Upper(key) ==
    CASE key = "dns" -> "DNS"
      [] key = "geo" -> "GEO"
      [] key = "tcp" -> "TCP"
      [] key = "http" -> "HTTP"
      [] key = "config" -> "CONFIG"

\* message.split('\n')[0]
FirstLine(message) == IF Contains(message, "\n") THEN Split1(message, "\n")[1] ELSE message

\* the text of the notification: the header lines, then one line per check
format_report(res) ==
    [status  |-> <<Emoji(res.success), res.overall_status>>,
     success |-> res.success_rate,
     server  |-> res.server,
     lines   |-> [k \in 1..Len(res.checks) |->
                    <<Emoji(res.checks[k].success), Upper(res.checks[k].name),
                      FirstLine(res.checks[k].message)>>]]

\* what the POST of send_message can end as: status 200, another status, an exception
PostOutcomes == {"200", "non200", "error"}

\* the value send_message returns for an outcome of its POST
send_message(outcome) == outcome = "200"

-----------------------------------------------------------------------------
(* The inputs.                                                             *)

\* vless://uuid@example.com:8443?security=tls&type=ws&sni=s.example#MyNode
SampleFull ==
    <<"v", "l", "e", "s", "s", ":", "/", "/", "u", "u", "i", "d", "@", "e",
      "x", "a", "m", "p", "l", "e", ".", "c", "o", "m", ":", "8", "4", "4",
      "3", "?", "s", "e", "c", "u", "r", "i", "t", "y", "=", "t", "l", "s",
      "&", "t", "y", "p", "e", "=", "w", "s", "&", "s", "n", "i", "=", "s",
      ".", "e", "x", "a", "m", "p", "l", "e", "#", "M", "y", "N", "o", "d",
      "e">>

\* vless://uuid@example.com#A#B
SampleTwoLabels ==
    <<"v", "l", "e", "s", "s", ":", "/", "/", "u", "u", "i", "d", "@", "e",
      "x", "a", "m", "p", "l", "e", ".", "c", "o", "m", "#", "A", "#", "B">>

\* not-a-vless-string
SampleNoScheme ==
    <<"n", "o", "t", "-", "a", "-", "v", "l", "e", "s", "s", "-", "s", "t",
      "r", "i", "n", "g">>

\* vless://uuid@host:notanumber
SampleBadPort ==
    <<"v", "l", "e", "s", "s", ":", "/", "/", "u", "u", "i", "d", "@", "h",
      "o", "s", "t", ":", "n", "o", "t", "a", "n", "u", "m", "b", "e", "r">>

\* vless://u@h: 8_0?flow=x&flow=y&sni
SampleSpacedPort ==
    <<"v", "l", "e", "s", "s", ":", "/", "/", "u", "@", "h", ":", " ", "8",
      "_", "0", "?", "f", "l", "o", "w", "=", "x", "&", "f", "l", "o", "w",
      "=", "y", "&", "s", "n", "i">>

Samples == {SampleFull, SampleTwoLabels, SampleNoScheme, SampleBadPort, SampleSpacedPort}

Alphabet == {"u", "@", "#", "?", ":", "0", "1", "-"}

\* the strings over A of length at most n
Strings(A, n) == UNION {[1..k -> A] : k \in 0..n}

\* every short string, with and without the scheme, and the samples
Inputs(n) ==
    Strings(Alphabet, n) \cup {VlessScheme \o b : b \in Strings(Alphabet, n)} \cup Samples

TelegramConfigs == {<<>>, SampleNoScheme, SampleTwoLabels}

ChatAlphabet == {"7", " ", ","}

\* line 17: os.getenv('CHAT_IDS', '').split(',') if os.getenv('CHAT_IDS') else []
ChatIds(env) == IF env = <<>> THEN <<>> ELSE Split(env, ",")

-----------------------------------------------------------------------------
(* main and the three modes.                                               *)

Fresh ==
    /\ config = None
    /\ results = None
    /\ calls = <<>>
    /\ net = <<>>
    /\ ret = None
    /\ sends = <<>>
    /\ idx = 0
    /\ success_count = 0
    /\ printed = <<>>

\* the web service and the console mode
InitRun ==
    /\ MODE \in {"web", "default"}
    /\ VLESS_CONFIG \in Inputs(MaxRunBody)
    /\ BOT_TOKEN = <<>>
    /\ CHAT_IDS = <<>>
    /\ pc = "main"
    /\ Fresh

\* the notifier
InitTelegram ==
    /\ MODE = "telegram"
    /\ VLESS_CONFIG \in TelegramConfigs
    /\ BOT_TOKEN \in {<<>>, <<"t">>}
    /\ CHAT_IDS \in {ChatIds(env) : env \in Strings(ChatAlphabet, MaxChatEnv)}
    /\ pc = "main"
    /\ Fresh

Init == InitRun \/ InitTelegram

MainLeaves == UNCHANGED <<MODE, VLESS_CONFIG, BOT_TOKEN, CHAT_IDS, results, calls, net,
                          ret, sends, idx, success_count, printed>>

\* lines 257-290: run_web_service up to the start of the server
StartWeb ==
    /\ pc = "main"
    /\ MODE = "web"
    /\ \E started \in BOOLEAN :
        IF started /\ VLESS_CONFIG # <<>>
        THEN /\ config' = parse_config(VLESS_CONFIG)
             /\ pc' = "serving"
        ELSE /\ config' = config
             /\ pc' = "exit"
    /\ MainLeaves

\* lines 278-280: GET /check
CheckRequest ==
    /\ pc = "serving"
    /\ pc' = "run_check"
    /\ UNCHANGED <<MODE, VLESS_CONFIG, BOT_TOKEN, CHAT_IDS, config, results, calls, net,
                   ret, sends, idx, success_count, printed>>

\* the report goes out as the response; the service waits for the next request
CheckResponse ==
    /\ pc = "returned"
    /\ MODE = "web"
    /\ pc' = "serving"
    /\ UNCHANGED <<MODE, VLESS_CONFIG, BOT_TOKEN, CHAT_IDS, config, results, calls, net,
                   ret, sends, idx, success_count, printed>>

\* lines 297-303
StartDefault ==
    /\ pc = "main"
    /\ MODE = "default"
    /\ IF VLESS_CONFIG = <<>>
       THEN /\ config' = config
            /\ pc' = "exit"
       ELSE /\ config' = parse_config(VLESS_CONFIG)
            /\ pc' = "run_check"
    /\ MainLeaves

\* lines 305-314
PrintResults ==
    /\ pc = "returned"
    /\ MODE = "default"
    /\ pc' = "exit"
    /\ UNCHANGED <<MODE, VLESS_CONFIG, BOT_TOKEN, CHAT_IDS, config, results, calls, net,
                   ret, sends, idx, success_count, printed>>

\* lines 232-242
StartTelegram ==
    /\ pc = "main"
    /\ MODE = "telegram"
    /\ IF BOT_TOKEN = <<>> \/ CHAT_IDS = <<>> \/ VLESS_CONFIG = <<>>
       THEN /\ config' = config
            /\ pc' = "exit"
       ELSE /\ config' = parse_config(VLESS_CONFIG)
            /\ pc' = "run_check"
    /\ MainLeaves

\* lines 244-247
BeginSends ==
    /\ pc = "returned"
    /\ MODE = "telegram"
    /\ success_count' = 0
    /\ idx' = 1
    /\ pc' = "sending"
    /\ UNCHANGED <<MODE, VLESS_CONFIG, BOT_TOKEN, CHAT_IDS, config, results, calls, net,
                   ret, sends, printed>>

\* a loop that stops at the first failed send
SendReport_stop_on_failure ==
    /\ pc = "sending"
    /\ idx <= Len(CHAT_IDS)
    /\ Strip(CHAT_IDS[idx]) # <<>>
    /\ \E outcome \in PostOutcomes :
        /\ sends' = Append(sends, [chat_id |-> Strip(CHAT_IDS[idx]),
                                   text    |-> format_report(results),
                                   ok      |-> send_message(outcome)])
        /\ success_count' = IF send_message(outcome) THEN success_count + 1 ELSE success_count
        /\ idx' = IF send_message(outcome) THEN idx + 1 ELSE Len(CHAT_IDS) + 1
    /\ UNCHANGED <<MODE, VLESS_CONFIG, BOT_TOKEN, CHAT_IDS, pc, config, results, calls, net,
                   ret, printed>>

\* lines 248-253, an identifier that is not blank: one send, counted when it succeeds
SendReport ==
    /\ pc = "sending"
    /\ idx <= Len(CHAT_IDS)
    /\ Strip(CHAT_IDS[idx]) # <<>>
    /\ \E outcome \in PostOutcomes :
        /\ sends' = Append(sends, [chat_id |-> Strip(CHAT_IDS[idx]),
                                   text    |-> format_report(results),
                                   ok      |-> send_message(outcome)])
        /\ success_count' = IF send_message(outcome) THEN success_count + 1 ELSE success_count
    /\ idx' = idx + 1
    /\ UNCHANGED <<MODE, VLESS_CONFIG, BOT_TOKEN, CHAT_IDS, pc, config, results, calls, net,
                   ret, printed>>

\* lines 248-250, a blank identifier: nothing is sent
SkipBlank ==
    /\ pc = "sending"
    /\ idx <= Len(CHAT_IDS)
    /\ Strip(CHAT_IDS[idx]) = <<>>
    /\ idx' = idx + 1
    /\ UNCHANGED <<MODE, VLESS_CONFIG, BOT_TOKEN, CHAT_IDS, pc, config, results, calls, net,
                   ret, sends, success_count, printed>>

\* line 255
PrintSent ==
    /\ pc = "sending"
    /\ idx > Len(CHAT_IDS)
    /\ printed' = Str(success_count) \o <<"/">> \o Str(Len(CHAT_IDS))
    /\ pc' = "exit"
    /\ UNCHANGED <<MODE, VLESS_CONFIG, BOT_TOKEN, CHAT_IDS, config, results, calls, net,
                   ret, sends, idx, success_count>>

\* lines 316-320: Ctrl-C while the program waits on the network or for a request
\* abandons whatever is in flight
Interrupt ==
    /\ pc \in {"serving", "dns", "geo", "tcp", "http", "sending"}
    /\ pc' = "stopped"
    /\ UNCHANGED <<MODE, VLESS_CONFIG, BOT_TOKEN, CHAT_IDS, config, results, calls, net,
                   ret, sends, idx, success_count, printed>>

Next ==
    \/ StartWeb
    \/ CheckRequest
    \/ CheckResponse
    \/ StartDefault
    \/ PrintResults
    \/ StartTelegram
    \/ RunCheckBegin
    \/ RunDns
    \/ RunGeo
    \/ RunTcp
    \/ RunHttp
    \/ BeginSends
    \/ SendReport
    \/ SkipBlank
    \/ PrintSent
    \/ Interrupt

Spec == Init /\ [][Next]_vars

-----------------------------------------------------------------------------
(* The parser on its own: VLESSChecker(config_str) on every short input.   *)

InitParse ==
    /\ MODE = "default"
    /\ VLESS_CONFIG \in Inputs(MaxBody)
    /\ BOT_TOKEN = <<>>
    /\ CHAT_IDS = <<>>
    /\ pc = "new"
    /\ Fresh

\* lines 21-22: VLESSChecker.__init__
Construct ==
    /\ pc = "new"
    /\ config' = parse_config(VLESS_CONFIG)
    /\ pc' = "constructed"
    /\ MainLeaves

NextParse == Construct

SpecParse == InitParse /\ [][NextParse]_vars

-----------------------------------------------------------------------------
(* The probes on their own: a checker is built, then any probe is called   *)
(* on it, any number of times.                                             *)

InitProbe ==
    /\ MODE = "default"
    /\ VLESS_CONFIG \in Inputs(MaxRunBody)
    /\ BOT_TOKEN = <<>>
    /\ CHAT_IDS = <<>>
    /\ pc = "new"
    /\ Fresh

CallLeaves == UNCHANGED <<MODE, VLESS_CONFIG, BOT_TOKEN, CHAT_IDS, pc, config, results,
                          calls, sends, idx, success_count, printed>>

\* one call of a probe: what it returned, what it did on the network
Returned(probe, r) == [probe |-> probe, ok |-> r.ok, message |-> r.message]

CallDns ==
    /\ pc = "constructed"
    /\ \E r \in check_dns(config) : ret' = Returned("dns", r) /\ net' = r.net
    /\ CallLeaves

CallGeo ==
    /\ pc = "constructed"
    /\ \E r \in check_geo(config) : ret' = Returned("geo", r) /\ net' = r.net
    /\ CallLeaves

CallTcp ==
    /\ pc = "constructed"
    /\ \E r \in check_tcp(config) : ret' = Returned("tcp", r) /\ net' = r.net
    /\ CallLeaves

CallHttp ==
    /\ pc = "constructed"
    /\ \E r \in check_http(config) : ret' = Returned("http", r) /\ net' = r.net
    /\ CallLeaves

NextProbe ==
    \/ Construct
    \/ CallDns
    \/ CallGeo
    \/ CallTcp
    \/ CallHttp

SpecProbe == InitProbe /\ [][NextProbe]_vars

-----------------------------------------------------------------------------
(* The claims.                                                             *)

\* a run of run_check on a parsed descriptor has returned its report
ReportReturned == pc = "returned" /\ ~Falsy(config)

ProbeOrder == <<"dns", "geo", "tcp", "http">>

\* the keys of the checks mapping, in insertion order
Keys(res) == [k \in 1..Len(res.checks) |-> res.checks[k].name]

\* how many of the recorded outcomes are successes
Successes(res) == Cardinality({k \in 1..Len(res.checks) : res.checks[k].success})

\* C1: when run_check returns on a parsed descriptor, success is true exactly
\* when the DNS, TCP and HTTP outcomes are all successes, whatever Geo's outcome
\* was, and overall_status is "OK" exactly when success is true, else "FAILED".
C1_VerdictIsDnsTcpHttp ==
    ReportReturned =>
        /\ results.success
             = (OkOf(results, "dns") /\ OkOf(results, "tcp") /\ OkOf(results, "http"))
        /\ results.overall_status = (IF results.success THEN "OK" ELSE "FAILED")

\* a report that is OK although Geo failed
C1_Witness ==
    /\ ReportReturned
    /\ ~OkOf(results, "geo")
    /\ results.success
    /\ results.overall_status = "OK"

\* C2: when run_check returns on a parsed descriptor, success_rate is "k/4",
\* k the number of successes among the four recorded outcomes, Geo included.
C2_RateIsSuccessesOfFour ==
    ReportReturned =>
        results.success_rate = <<Digits[Successes(results) + 1], "/", "4">>

\* a report of 2/4 in which Geo is one of the two successes
C2_Witness ==
    /\ ReportReturned
    /\ OkOf(results, "geo")
    /\ ~OkOf(results, "dns")
    /\ results.success_rate = <<"2", "/", "4">>

\* C3: when run_check returns without a descriptor, the report has the single
\* entry config (failed, "VLESS config parse error"), success_rate "0/0",
\* overall_status "FAILED", success false and server "N/A", and the run has
\* called no probe and performed no network operation.
C3_NullDescriptorReport ==
    (pc = "returned" /\ config = None) =>
        /\ results.checks = <<[name    |-> "config",
                               success |-> FALSE,
                               message |-> <<"VLESS config parse error">>]>>
        /\ results.success_rate = <<"0", "/", "0">>
        /\ results.overall_status = "FAILED"
        /\ results.success = FALSE
        /\ results.server = <<"N", "/", "A">>
        /\ calls = <<>>
        /\ net = <<>>

\* run_check has returned for an input that did not parse
C3_Witness == pc = "returned" /\ config = None /\ VLESS_CONFIG # <<>>

\* C4: a probe called on a checker without a descriptor returns
\* (false, "Config parse error") and performs no network operation.
C4_ProbesFailWithoutDescriptor ==
    (pc = "constructed" /\ config = None /\ ret # None) =>
        /\ ret.ok = FALSE
        /\ ret.message = <<"Config parse error">>
        /\ net = <<>>

\* C5: the port of a returned descriptor is positive, and it is 443 when the
\* address part has no ':'.
C5_PortPositive ==
    (pc = "constructed" /\ config # None) =>
        /\ config.port > 0
        /\ (~Contains(address_part(VLESS_CONFIG), ":") => config.port = 443)

\* C6: parse_config yields None or a descriptor with all eight fields and a
\* non-empty host.
C6_HostNonEmpty ==
    (pc = "constructed" /\ config # None) =>
        /\ DOMAIN config = {"uuid", "host", "port", "name", "security", "type", "sni", "flow"}
        /\ config.host # <<>>

\* the result is a descriptor: the eight fields, an integer port, texts elsewhere
IsDescriptor(d) ==
    /\ DOMAIN d = {"uuid", "host", "port", "name", "security", "type", "sni", "flow"}
    /\ d.port \in Int
    /\ \A f \in {"uuid", "host", "name", "security", "type", "sni", "flow"} :
        d[f] \in Seq(STRING)

\* C7: parse_config returns None or a descriptor for every input, and None
\* when the input lacks the scheme, when the text after the scheme has no '@',
\* and when the address has a ':' whose last segment int() rejects.
C7_ParseTotalFailsToNone ==
    pc = "constructed" =>
        /\ config = None \/ IsDescriptor(config)
        /\ ~StartsWith(VLESS_CONFIG, VlessScheme) => config = None
        /\ (StartsWith(VLESS_CONFIG, VlessScheme)
              /\ ~Contains(Drop(VLESS_CONFIG, 8), "@")) => config = None
        /\ (StartsWith(VLESS_CONFIG, VlessScheme)
              /\ Contains(Drop(VLESS_CONFIG, 8), "@")
              /\ Contains(address_part(VLESS_CONFIG), ":")
              /\ IntRaises(port_text(VLESS_CONFIG))) => config = None

\* an input with the scheme, an '@' and a port that is no integer was parsed
C7_Witness ==
    /\ pc = "constructed"
    /\ config = None
    /\ StartsWith(VLESS_CONFIG, VlessScheme)
    /\ Contains(Drop(VLESS_CONFIG, 8), "@")
    /\ Contains(address_part(VLESS_CONFIG), ":")
    /\ port_text(VLESS_CONFIG) # <<>>

\* the identifiers of CHAT_IDS[1..n] that are not blank, trimmed, in order
RECURSIVE Recipients(_)
Recipients(n) ==
    IF n = 0 THEN <<>>
    ELSE IF \A k \in 1..Len(CHAT_IDS[n]) : CHAT_IDS[n][k] \in Whitespace
         THEN Recipients(n - 1)
         ELSE Append(Recipients(n - 1), Strip(CHAT_IDS[n]))

\* the delivery loop is running or has printed its final line
Delivering == pc = "sending" \/ printed # <<>>

\* C8: in the delivery loop the send attempts so far are exactly the non-blank
\* identifiers passed so far, one attempt each, in list order, whatever the
\* earlier sends returned; the counter is the number of attempts that returned
\* success; the printed count is that number over the length of CHAT_IDS, and
\* is printed only after every identifier was passed.
C8_OneSendEachCountsSuccesses ==
    Delivering =>
        /\ [k \in 1..Len(sends) |-> sends[k].chat_id] = Recipients(idx - 1)
        /\ success_count = Cardinality({k \in 1..Len(sends) : sends[k].ok})
        /\ printed # <<>> =>
            /\ idx = Len(CHAT_IDS) + 1
            /\ printed = Str(Cardinality({k \in 1..Len(sends) : sends[k].ok}))
                            \o <<"/">> \o Str(Len(CHAT_IDS))

\* the final line was printed after a failed send was followed by a successful
\* one, with a blank identifier in the list
C8_Witness ==
    /\ printed = <<"1", "/", "3">>
    /\ Len(sends) = 2
    /\ ~sends[1].ok
    /\ sends[2].ok

\* how many probes have run when the program is at a position of run_check
Done(p) ==
    CASE p = "dns" -> 0
      [] p = "geo" -> 1
      [] p = "tcp" -> 2
      [] p = "http" -> 3
      [] p = "returned" -> 4

\* C9: in a run of run_check on a parsed descriptor the probes called so far
\* are the first ones of dns, geo, tcp, http, each once and in that order,
\* whatever the earlier ones returned, and the keys of the checks mapping are
\* the same names in the same order; when the run returns all four have run.
C9_ProbesOnceInOrder ==
    (~Falsy(config) /\ pc \in {"dns", "geo", "tcp", "http", "returned"}) =>
        /\ calls = SubSeq(ProbeOrder, 1, Done(pc))
        /\ Keys(results) = calls

\* a run in which DNS failed has returned with all four probes run
C9_Witness ==
    /\ ReportReturned
    /\ ~OkOf(results, "dns")
    /\ ~OkOf(results, "tcp")
    /\ calls = <<"dns", "geo", "tcp", "http">>

\* C10: when check_tcp's connection is established within the timeout, the
\* probe returns success.
C10_ConnectedMeansSuccess ==
    (pc = "constructed" /\ ret # None /\ ret.probe = "tcp" /\ config # None
        /\ net # <<>> /\ net[1] = "connect:established") => ret.ok

====
